---- MODULE Spec2Model ----
(***************************************************************************)
(* The LRC lyric parser and multi-track merger of nonebot-plugin-ncm       *)
(* (src/lyrics_parser.py): parse_lrc, strip_lrc_lines, merge_lrc and       *)
(* process_lyrics.                                                         *)
(*                                                                         *)
(* A text is a sequence of characters; a character is a string.  The      *)
(* characters that matter to the code have names:                         *)
(*   "NL"     the line feed                                                *)
(*   " "      the space,  "u3000" the full-width space U+3000              *)
(*   "zuo" "ci" "qu" "bian"   the characters of the credit labels          *)
(*            (zuo ci = lyricist, zuo qu = composer, bian qu = arranger)   *)
(* Every other one-letter string is an ordinary character.                 *)
(***************************************************************************)
EXTENDS Integers, Sequences, FiniteSets, TLC

VARIABLES
    pc,                 \* position of the running call
    lrc,                \* parse_lrc: the text argument
    ignore_empty,       \* parse_lrc: flag
    merge_empty,        \* parse_lrc: flag
    parsed,             \* parse_lrc: the local list `parsed`; at "parse_done" the returned list
    original_lyrics,    \* process_lyrics: argument (optional text)
    translation_lyrics, \* process_lyrics: argument (optional text)
    roma_lyrics,        \* process_lyrics: argument (optional text)
    track,              \* process_lyrics: the track it is at ("none" outside process_lyrics)
    lyric_groups,       \* the dict lyrics_groups of process_lyrics, and the caller's mapping
                        \* given to merge_lrc: a list of <<id, list of LrcLine>>
    main_group,         \* merge_lrc: argument, an id or "None"
    threshold,          \* merge_lrc: argument
    replace_empty_line, \* merge_lrc: argument, a text (<<>> for None or "")
    skip_merge_group_name, \* merge_lrc: argument, an id or "None"
    main_lyric,         \* merge_lrc: local, the main track
    sub_lines,          \* merge_lrc: local, list of <<id, remaining lines>> of the other tracks
    k,                  \* merge_lrc: number of main lines the loop has gone through
    merged,             \* merge_lrc: local, the output built so far
    result,             \* the list returned by merge_lrc / process_lyrics
    error,              \* "none", or the exception that ended the call
    render_groups,      \* render_lyrics_to_pic: the local list `groups`
    setting,            \* the table `setting`: a list of documents, in insertion order
    cache,              \* the messages nncm has recorded: message id, type, song or list id
    shared,             \* history: the recorded messages with the handler and the event
                        \* that recorded them
    music_check_calls,  \* the calls of nncm.music_check made so far
    last                \* the handler that ran last, with its event

vars == <<pc, lrc, ignore_empty, merge_empty, parsed, original_lyrics,
          translation_lyrics, roma_lyrics, track, lyric_groups, main_group, threshold,
          replace_empty_line, skip_merge_group_name, main_lyric, sub_lines, k,
          merged, result, error, render_groups, setting, cache, shared,
          music_check_calls, last>>

parseVars == <<lrc, ignore_empty, merge_empty, parsed>>
processVars == <<original_lyrics, translation_lyrics, roma_lyrics, track>>
mergeArgs == <<main_group, threshold, replace_empty_line, skip_merge_group_name>>
mergeLocals == <<main_lyric, sub_lines, k, merged>>
lyricVars == <<pc, parseVars, processVars, lyric_groups, mergeArgs, mergeLocals, result, error>>
botVars == <<setting, cache, shared, music_check_calls, last>>
pluginVars == <<render_groups, botVars>>

-----------------------------------------------------------------------------
(* Sequences *)

Last(s) == s[Len(s)]

Front(s) == SubSeq(s, 1, Len(s) - 1)

Max(S) == CHOOSE x \in S : \A y \in S : y <= x

RECURSIVE Pow(_, _)
Pow(b, n) == IF n = 0 THEN 1 ELSE b * Pow(b, n - 1)

-----------------------------------------------------------------------------
(* Characters and Python's str / int / float primitives *)

DigitChars == <<"0", "1", "2", "3", "4", "5", "6", "7", "8", "9">>

IsDigit(c) == \E i \in 1..10 : DigitChars[i] = c

DigitVal(c) == (CHOOSE i \in 1..10 : DigitChars[i] = c) - 1

\* int(s) of a digit string
RECURSIVE IntOf(_)
IntOf(ds) == IF ds = <<>> THEN 0 ELSE 10 * IntOf(Front(ds)) + DigitVal(Last(ds))

\* str.isspace of one character
IsSpace(c) == c \in {" ", "u3000", "NL"}

\* str.strip()
RECURSIVE LStrip(_)
LStrip(s) == IF s # <<>> /\ IsSpace(Head(s)) THEN LStrip(Tail(s)) ELSE s

RECURSIVE RStrip(_)
RStrip(s) == IF s # <<>> /\ IsSpace(Last(s)) THEN RStrip(Front(s)) ELSE s

Strip(s) == RStrip(LStrip(s))

\* str.replace("　", " ")
ReplaceWide(s) == [i \in 1..Len(s) |-> IF s[i] = "u3000" THEN " " ELSE s[i]]

\* str.startswith(prefix)
StartsWith(s, p) == Len(s) >= Len(p) /\ SubSeq(s, 1, Len(p)) = p

CreditLabels == {<<"zuo", "ci">>, <<"zuo", "qu">>, <<"bian", "qu">>}

\* floor(log2(n / d)) for n, d > 0
RECURSIVE FloorLog2(_, _)
FloorLog2(n, d) ==
    IF n >= 2 * d THEN FloorLog2(n, 2 * d) + 1
    ELSE IF n < d THEN FloorLog2(2 * n, d) - 1
    ELSE 0

\* 2^e mod m
RECURSIVE PowMod(_, _)
PowMod(e, m) == IF e = 0 THEN 1 % m ELSE (2 * PowMod(e - 1, m)) % m

(***************************************************************************)
(* int(float(f"{sec}.{mili}") * 1000) in IEEE-754 binary64, for the value  *)
(* x = num / den seconds (den a power of ten).                             *)
(*  - 1000 x not a whole number: its distance to a whole number is at      *)
(*    least 1000/den, far above the rounding error, and int() truncates.   *)
(*  - 1000 x = N whole: float(x) = m * 2^-e with m the 53-bit mantissa     *)
(*    nearest to N * 2^e / 1000 (ties to even), e = 52 - floor(log2 x).    *)
(*    The product float(x) * 1000 is N - r * 2^-e exactly, where           *)
(*    r = N * 2^e - 1000 m, and is then rounded to 53 bits: it falls       *)
(*    below N, and int() gives N - 1, exactly when r exceeds half the      *)
(*    spacing of the doubles below N, in units of 2^-e.                    *)
(***************************************************************************)
FloatMs(num, den) ==
    IF (1000 * num) % den # 0 THEN (1000 * num) \div den
    ELSE LET N == (1000 * num) \div den IN
         IF N = 0 THEN 0
         ELSE LET p == FloorLog2(N, 1000)
                  q == FloorLog2(N, 1)
                  e == 52 - p
                  rem == ((N % 2000) * PowMod(e, 2000)) % 2000
                  r0 == rem % 1000
                  r == IF r0 > 500 \/ (r0 = 500 /\ rem >= 1000) THEN r0 - 1000 ELSE r0
                  lim == IF N = Pow(2, q) THEN Pow(2, q - p - 2) ELSE Pow(2, q - p - 1)
              IN IF r > lim THEN N - 1 ELSE N

-----------------------------------------------------------------------------
(* The regular expressions *)

\* index after the longest run of digits of s that starts at i (\d+ is greedy)
RECURSIVE DigitsEnd(_, _)
DigitsEnd(s, i) == IF i <= Len(s) /\ IsDigit(s[i]) THEN DigitsEnd(s, i + 1) ELSE i

NoMatch == [ok |-> FALSE, end |-> 0, min |-> <<>>, sec |-> <<>>, mili |-> <<>>, meta |-> <<>>]

(***************************************************************************)
(* LRC_TIME_REGEX matched at position i of s:                              *)
(*   (?P<min>\d+):(?P<sec>\d+)([\.:](?P<mili>\d+))?(-(?P<meta>\d))?        *)
(* The groups are greedy; a group that did not take part is <<>> (None).   *)
(* end is the index after the match.                                       *)
(***************************************************************************)
LRC_TIME_REGEX(s, i) ==
    LET a == DigitsEnd(s, i) IN
    IF a = i \/ a > Len(s) \/ s[a] # ":" THEN NoMatch
    ELSE LET b == DigitsEnd(s, a + 1) IN
         IF b = a + 1 THEN NoMatch
         ELSE LET hasMili == b <= Len(s) /\ s[b] \in {".", ":"} /\ DigitsEnd(s, b + 1) > b + 1
                  c == IF hasMili THEN DigitsEnd(s, b + 1) ELSE b
                  hasMeta == c + 1 <= Len(s) /\ s[c] = "-" /\ IsDigit(s[c + 1])
                  d == IF hasMeta THEN c + 2 ELSE c
              IN [ok |-> TRUE, end |-> d,
                  min |-> SubSeq(s, i, a - 1),
                  sec |-> SubSeq(s, a + 1, b - 1),
                  mili |-> IF hasMili THEN SubSeq(s, b + 1, c - 1) ELSE <<>>,
                  meta |-> IF hasMeta THEN <<s[c + 1]>> ELSE <<>>]

\* re.finditer(LRC_TIME_REGEX, s): the leftmost non-overlapping matches from position i on
RECURSIVE FindTimes(_, _)
FindTimes(s, i) ==
    IF i > Len(s) THEN <<>>
    ELSE LET m == LRC_TIME_REGEX(s, i) IN
         IF m.ok THEN <<m>> \o FindTimes(s, m.end) ELSE FindTimes(s, i + 1)

\* one bracketed tag \[TIME\] at position i: the index after it, or i when there is none.
\* No shorter match of TIME can be followed by "]" (it is followed by a digit, ".", ":" or "-").
TagEnd(s, i) ==
    IF i <= Len(s) /\ s[i] = "["
    THEN LET m == LRC_TIME_REGEX(s, i + 1) IN
         IF m.ok /\ m.end <= Len(s) /\ s[m.end] = "]" THEN m.end + 1 ELSE i
    ELSE i

\* (\[TIME\])+ from position i: the index after the last tag of the run
RECURSIVE TagsEnd(_, _)
TagsEnd(s, i) == IF TagEnd(s, i) = i THEN i ELSE TagsEnd(s, TagEnd(s, i))

\* the number of bracketed tags of the run that starts at i
RECURSIVE TagCount(_, _)
TagCount(s, i) == IF TagEnd(s, i) = i THEN 0 ELSE 1 + TagCount(s, TagEnd(s, i))

\* the lines of a text: "^" and "$" of re.MULTILINE, "." matches no line feed
RECURSIVE SplitLines(_)
SplitLines(text) ==
    IF \E i \in 1..Len(text) : text[i] = "NL"
    THEN LET i == CHOOSE j \in 1..Len(text) :
                      text[j] = "NL" /\ \A h \in 1..(j - 1) : text[h] # "NL"
         IN <<SubSeq(text, 1, i - 1)>> \o SplitLines(SubSeq(text, i + 1, Len(text)))
    ELSE <<text>>

\* LRC_LINE_REGEX on one line: whether it matches, and its group "lrc"
LRC_LINE_REGEX(line) ==
    [ok |-> TagsEnd(line, 1) > 1,
     lrc |-> SubSeq(line, TagsEnd(line, 1), Len(line))]

-----------------------------------------------------------------------------
(* Values *)

LrcLine(t, l, s) == [time |-> t, lrc |-> l, skip_merge |-> s]

LrcGroupLine(t, d) == [time |-> t, lrc |-> d]

\* Optional[str]: None, or a text
NoText == [present |-> FALSE, text |-> <<>>]

Str(t) == [present |-> TRUE, text |-> t]

\* truth value of an Optional[str]: None and "" are false
Truthy(o) == o.present /\ o.text # <<>>

\* a dict is a list of <<key, value>> pairs with distinct keys, in insertion order
Keys(d) == {d[i][1] : i \in 1..Len(d)}

Get(d, key) == d[CHOOSE i \in 1..Len(d) : d[i][1] = key][2]

\* d[key] = value: an existing key keeps its place
Put(d, key, value) ==
    IF key \in Keys(d)
    THEN [i \in 1..Len(d) |-> IF d[i][1] = key THEN <<key, value>> ELSE d[i]]
    ELSE Append(d, <<key, value>>)

\* d.pop(key)
RECURSIVE Remove(_, _)
Remove(d, key) ==
    IF d = <<>> THEN <<>>
    ELSE IF Head(d)[1] = key THEN Tail(d) ELSE <<Head(d)>> \o Remove(Tail(d), key)

-----------------------------------------------------------------------------
(* parse_lrc *)

\* the time of one tag: int(min) * 60 * 1000 + int(float(f"{sec}.{mili or 0}") * 1000)
TagTime(m) ==
    LET frac == IF m.mili = <<>> THEN <<"0">> ELSE m.mili
        den == Pow(10, Len(frac))
    IN IntOf(m.min) * 60 * 1000 + FloatMs(IntOf(m.sec) * den + IntOf(frac), den)

\* line["lrc"].strip().replace("　", " ")
LineText(line) == ReplaceWide(Strip(LRC_LINE_REGEX(line).lrc))

\* entries that are all held back from matching as soon as one tag of the line has
\* the meta suffix
LineEntriesAnyMeta(line) ==
    IF ~LRC_LINE_REGEX(line).ok THEN <<>>
    ELSE LET lrc_text == LineText(line)
             times == FindTimes(line, 1)
         IN [i \in 1..Len(times) |->
                LrcLine(TagTime(times[i]), lrc_text,
                        (\E j \in 1..Len(times) : times[j].meta # <<>>)
                            \/ \E p \in CreditLabels : StartsWith(lrc_text, p))]

\* the entries one line adds to `parsed`: one per match of LRC_TIME_REGEX in line[0],
\* the whole matched line
LineEntries(line) ==
    IF ~LRC_LINE_REGEX(line).ok THEN <<>>
    ELSE LET lrc_text == LineText(line)
             times == FindTimes(line, 1)
         IN [i \in 1..Len(times) |->
                LrcLine(TagTime(times[i]), lrc_text,
                        times[i].meta # <<>>
                            \/ \E p \in CreditLabels : StartsWith(lrc_text, p))]

\* the loop over re.finditer(LRC_LINE_REGEX, lrc)
RECURSIVE ScanLines(_)
ScanLines(lines) ==
    IF lines = <<>> THEN <<>> ELSE LineEntries(Head(lines)) \o ScanLines(Tail(lines))

parse_scan(text) == ScanLines(SplitLines(text))

\* [x for x in parsed if x.lrc]
RECURSIVE NonEmptyOnly(_)
NonEmptyOnly(s) ==
    IF s = <<>> THEN <<>>
    ELSE (IF Head(s).lrc # <<>> THEN <<Head(s)>> ELSE <<>>) \o NonEmptyOnly(Tail(s))

\* the loop that builds new_parsed: `acc` is new_parsed so far
RECURSIVE MergeEmptyLoop(_, _)
MergeEmptyLoop(acc, rest) ==
    IF rest = <<>> THEN acc
    ELSE LET line == Head(rest)
             keep == line.lrc # <<>>
                        \/ (acc # <<>> /\ Last(acc).lrc # <<>> /\ line.lrc = <<>>)
         IN MergeEmptyLoop(IF keep THEN Append(acc, line) ELSE acc, Tail(rest))

MergeEmpty(s) ==
    LET new_parsed == MergeEmptyLoop(<<>>, s)
    IN IF new_parsed # <<>> /\ Last(new_parsed).lrc = <<>> THEN Front(new_parsed)
       ELSE new_parsed

\* x put into the time-sorted list s after every entry whose time is not greater
RECURSIVE InsertByTime(_, _)
InsertByTime(s, x) ==
    IF s = <<>> THEN <<x>>
    ELSE IF Head(s).time <= x.time THEN <<Head(s)>> \o InsertByTime(Tail(s), x)
    ELSE <<x>> \o s

\* a parse_lrc that returns the list without sorting it
SortByTimeSkipped(s) == s

\* parsed.sort(key=lambda x: x.time): a stable sort
RECURSIVE SortByTime(_)
SortByTime(s) == IF s = <<>> THEN <<>> ELSE InsertByTime(SortByTime(Front(s)), Last(s))

\* the empty-line policy
EmptyPolicy(p, ignore, merge) ==
    IF ignore THEN NonEmptyOnly(p) ELSE IF merge THEN MergeEmpty(p) ELSE p

parse_finish(p, ignore, merge) == SortByTime(EmptyPolicy(p, ignore, merge))

parse_lrc(text, ignore, merge) == parse_finish(parse_scan(text), ignore, merge)

-----------------------------------------------------------------------------
(* merge_lrc *)

\* strip_lrc_lines: lrc.lrc = lrc.lrc.strip() for every line
strip_lrc_lines(lines) == [i \in 1..Len(lines) |-> [lines[i] EXCEPT !.lrc = Strip(@)]]

\* while v and not v[-1].lrc: v.pop()
RECURSIVE TrimTrailing(_)
TrimTrailing(v) == IF v # <<>> /\ Last(v).lrc = <<>> THEN TrimTrailing(Front(v)) ELSE v

\* for x in main_lyric: if not x.lrc: x.lrc = replace_empty_line; x.skip_merge = True
ReplaceEmpty(lines, repl) ==
    IF repl = <<>> THEN lines
    ELSE [i \in 1..Len(lines) |->
             IF lines[i].lrc = <<>> THEN LrcLine(lines[i].time, repl, TRUE) ELSE lines[i]]

\* the id of the main track: the first key when main_group is None
MainId(groups, main) == IF main = "None" THEN groups[1][1] ELSE main

\* the exception of lines 98-102, or "none"
MainError(groups, main) ==
    IF main = "None" THEN (IF groups = <<>> THEN "StopIteration" ELSE "none")
    ELSE IF main \in Keys(groups) THEN "none" ELSE "KeyError"

\* what merge_lrc's writes through the shared line objects leave in one track of the
\* caller: the lines of the working copy (the track without its trailing empty
\* lines) are stripped and, in the main track, replaced; the lists keep their length
CallerTrack(v, isMain, repl) ==
    LET n == Len(TrimTrailing(v))
        kept == strip_lrc_lines(SubSeq(v, 1, n))
    IN (IF isMain THEN ReplaceEmpty(kept, repl) ELSE kept) \o SubSeq(v, n + 1, Len(v))

\* lists that lose their trailing empty lines with the working copies
CallerListsShared(groups) ==
    [n \in 1..Len(groups) |-> <<groups[n][1], TrimTrailing(groups[n][2])>>]

\* lines 91-96 as the caller sees them: the lists that are popped are the copies made
\* at line 91, the caller's own lists keep every line
CallerLists(groups) == groups

\* a window closed at both ends
InWindowClosed(main_time, th, t) == (main_time - th) <= t /\ t <= (main_time + th)

\* (main_time - threshold) <= line.time < (main_time + threshold)
InWindow(main_time, th, t) == (main_time - th) <= t /\ t < (main_time + th)

\* a test of the candidate line that forgets main_line.skip_merge
IsMatchAnyMain(main_line, th, line) ==
    line.lrc # <<>> /\ InWindow(main_line.time, th, line.time)

\* a test of the candidate line that forgets the line's text
IsMatchEmptyToo(main_line, th, line) ==
    ~main_line.skip_merge /\ InWindow(main_line.time, th, line.time)

\* the test of one candidate line in the inner loop
IsMatch(main_line, th, line) ==
    /\ ~(line.lrc = <<>> \/ main_line.skip_merge)
    /\ InWindow(main_line.time, th, line.time)

\* an index that is that of the last line when the inner loop runs to the end: the
\* loop variable i read after a loop without break
MatchIndexOrEnd(sub_lrc, main_line, th) ==
    IF \E i \in 1..Len(sub_lrc) : IsMatch(main_line, th, sub_lrc[i])
    THEN CHOOSE i \in 1..Len(sub_lrc) :
             /\ IsMatch(main_line, th, sub_lrc[i])
             /\ \A j \in 1..(i - 1) : ~IsMatch(main_line, th, sub_lrc[j])
    ELSE Len(sub_lrc)

\* the index at which the inner loop breaks, 0 when it runs to the end
MatchIndex(sub_lrc, main_line, th) ==
    IF \E i \in 1..Len(sub_lrc) : IsMatch(main_line, th, sub_lrc[i])
    THEN CHOOSE i \in 1..Len(sub_lrc) :
             /\ IsMatch(main_line, th, sub_lrc[i])
             /\ \A j \in 1..(i - 1) : ~IsMatch(main_line, th, sub_lrc[j])
    ELSE 0

\* a pop loop that keeps the first text it meets
RECURSIVE PopIntoFirst(_, _, _)
PopIntoFirst(d, group, popped) ==
    IF popped = <<>> THEN d
    ELSE PopIntoFirst(IF Head(popped).lrc # <<>> /\ group \notin Keys(d)
                      THEN Put(d, group, Head(popped).lrc) ELSE d,
                      group, Tail(popped))

\* for _ in range(i + 1): it = sub_lrc.pop(0); if it.lrc: line_group.lrc[group] = it.lrc
RECURSIVE PopInto(_, _, _)
PopInto(d, group, popped) ==
    IF popped = <<>> THEN d
    ELSE PopInto(IF Head(popped).lrc # <<>> THEN Put(d, group, Head(popped).lrc) ELSE d,
                 group, Tail(popped))

\* a loop over sub_lines that ends at the first track with a match
RECURSIVE MatchSubsFirstOnly(_, _, _, _, _)
MatchSubsFirstOnly(d, subs, n, main_line, th) ==
    IF n > Len(subs) THEN [lrc |-> d, subs |-> subs]
    ELSE LET group == subs[n][1]
             sub_lrc == subs[n][2]
             i == MatchIndex(sub_lrc, main_line, th)
         IN IF i = 0 THEN MatchSubsFirstOnly(d, subs, n + 1, main_line, th)
            ELSE [lrc |-> PopInto(d, group, SubSeq(sub_lrc, 1, i)),
                  subs |-> [subs EXCEPT ![n] = <<group, SubSeq(sub_lrc, i + 1, Len(sub_lrc))>>]]

\* a loop over sub_lines that reads the matched line and leaves it in its track
RECURSIVE MatchSubsNoPop(_, _, _, _, _)
MatchSubsNoPop(d, subs, n, main_line, th) ==
    IF n > Len(subs) THEN [lrc |-> d, subs |-> subs]
    ELSE LET i == MatchIndex(subs[n][2], main_line, th)
         IN IF i = 0 THEN MatchSubsNoPop(d, subs, n + 1, main_line, th)
            ELSE MatchSubsNoPop(Put(d, subs[n][1], subs[n][2][i].lrc), subs, n + 1,
                                main_line, th)

\* the loop over sub_lines for one main line: the line's mapping and the tracks after it
RECURSIVE MatchSubs(_, _, _, _, _)
MatchSubs(d, subs, n, main_line, th) ==
    IF n > Len(subs) THEN [lrc |-> d, subs |-> subs]
    ELSE LET group == subs[n][1]
             sub_lrc == subs[n][2]
             i == MatchIndex(sub_lrc, main_line, th)
         IN IF i = 0 THEN MatchSubs(d, subs, n + 1, main_line, th)
            ELSE MatchSubs(PopInto(d, group, SubSeq(sub_lrc, 1, i)),
                           [subs EXCEPT ![n] = <<group, SubSeq(sub_lrc, i + 1, Len(sub_lrc))>>],
                           n + 1, main_line, th)

\* the key of the main track's text in one output line
LineMainGroup(main_line, main, skip_name) ==
    IF main_line.skip_merge /\ skip_name # "None" THEN skip_name ELSE main

\* max((len(x[1]) for x in sub_lines), default=0)
RestLrcLen(subs) == IF subs = <<>> THEN 0 ELSE Max({Len(subs[n][2]) : n \in 1..Len(subs)})

\* target.lrc[group] = extra.lrc for the j-th extra line, over the tracks in order
RECURSIVE ExtraDict(_, _, _, _)
ExtraDict(d, subs, n, j) ==
    IF n > Len(subs) THEN d
    ELSE ExtraDict(IF j <= Len(subs[n][2]) THEN Put(d, subs[n][1], subs[n][2][j].lrc) ELSE d,
                   subs, n + 1, j)

\* extra lines set 1000 before the last line, not after
ExtraLinesEarlier(subs, last_time) ==
    [j \in 1..RestLrcLen(subs) |-> LrcGroupLine(last_time - 1000, ExtraDict(<<>>, subs, 1, j))]

\* the extra lines made of what the other tracks have left
ExtraLines(subs, last_time) ==
    [j \in 1..RestLrcLen(subs) |-> LrcGroupLine(last_time + 1000, ExtraDict(<<>>, subs, 1, j))]

-----------------------------------------------------------------------------
(* process_lyrics *)

\* the tracks in the order process_lyrics takes them, "end" after the last
NextTrack(t) == IF t = "main" THEN "trans" ELSE IF t = "trans" THEN "roma" ELSE "end"

\* a store that keeps an empty list too
StoreGroupAlways(groups, id, x) == Put(groups, id, x)

\* `if text and (x := parse_lrc(text)): lyrics_groups[id] = x`, the second half:
\* an empty list is false and is not stored
StoreGroup(groups, id, x) == IF x # <<>> THEN Put(groups, id, x) ELSE groups

\* threshold=1000 in the call of merge_lrc
ProcessThreshold == 1000

-----------------------------------------------------------------------------
(* Inputs *)

\* the lists of at most n elements of S
SeqsUpTo(S, n) == UNION {[1..m -> S] : m \in 0..n}

\* "\n".join(lines)
RECURSIVE Join(_)
Join(lines) ==
    IF lines = <<>> THEN <<>>
    ELSE IF Len(lines) = 1 THEN Head(lines)
    ELSE Head(lines) \o <<"NL">> \o Join(Tail(lines))

\* the most lines of a text given to parse_lrc
MaxLines == 3

\* [0:1]a
LinePlain == <<"[", "0", ":", "1", "]", "a">>
\* [0:2]b
LineLater == <<"[", "0", ":", "2", "]", "b">>
\* [0:3]                      a tag and no text
LinePause == <<"[", "0", ":", "3", "]">>
\* [0:2.5-1][0:1]c            two tags, out of time order, the first with a meta suffix
LineTwoTags == <<"[", "0", ":", "2", ".", "5", "-", "1", "]", "[", "0", ":", "1", "]", "c">>
\* [0:1] 作词x                a credit line
LineCredit == <<"[", "0", ":", "1", "]", " ", "zuo", "ci", "x">>
\* [0:2]at 1:3                text that holds digits:digits
LineClock == <<"[", "0", ":", "2", "]", "a", "t", " ", "1", ":", "3">>
\* x[0:1]a                    the tag does not start the line
LineNoTag == <<"x", "[", "0", ":", "1", "]", "a">>
\* [0:2.03]　b　d　           full-width spaces around and inside the text
LineWide == <<"[", "0", ":", "2", ".", "0", "3", "]", "u3000", "b", "u3000", "d", "u3000">>
\* [1:0:0006]作曲             minutes, a fraction of four digits after a colon
LineFrac == <<"[", "1", ":", "0", ":", "0", "0", "0", "6", "]", "zuo", "qu">>

\* [0:1][0:2-1]　编曲          a credit line of two tags, the second with a meta suffix
LineCreditTags ==
    <<"[", "0", ":", "1", "]", "[", "0", ":", "2", "-", "1", "]", "u3000", "bian", "qu">>

ParseLines == {LinePlain, LineLater, LinePause, LineTwoTags, LineCredit, LineClock,
               LineNoTag, LineWide, LineFrac, LineCreditTags}

ParseTexts == {Join(ls) : ls \in SeqsUpTo(ParseLines, MaxLines)}

\* the most lines of the main track, and of another track, given to merge_lrc
MaxMain == 2

MaxSub == 2

\* whether a list of lines is in time order, as every list parse_lrc returns is
TimeSorted(s) == \A i \in 1..(Len(s) - 1) : s[i].time <= s[i + 1].time

\* main lines: a text, the same text held back from matching, or no text
MainLineSet ==
    {LrcLine(t, <<"A">>, b) : t \in {1, 2}, b \in BOOLEAN} \cup {LrcLine(t, <<>>, FALSE) : t \in {1, 2}}

MainTracks == {s \in SeqsUpTo(MainLineSet, MaxMain) : TimeSorted(s)}

\* lines of a translation: the text tells the time of the line
SubText(t) == <<<<"a">>, <<"b">>, <<"c">>, <<"d">>>>[t + 1]

SubLineSet ==
    {LrcLine(t, SubText(t), FALSE) : t \in 0..3} \cup {LrcLine(t, <<>>, FALSE) : t \in 0..3}

SubTracks == {s \in SeqsUpTo(SubLineSet, MaxSub) : TimeSorted(s)}

\* a romanization of at most one line
RomaTracks == {<<>>, <<LrcLine(1, <<"r">>, FALSE)>>, <<LrcLine(3, <<"r">>, FALSE)>>}

\* the most lines of a track given to merge_lrc in a call with any arguments
MaxCall == 2

\* main lines of such a call: texts with spaces around them, or of spaces only
CallMainLineSet ==
    {LrcLine(1, <<" ", "A", " ">>, FALSE), LrcLine(1, <<"A">>, TRUE),
     LrcLine(2, <<>>, FALSE), LrcLine(2, <<" ">>, FALSE)}

CallMainTracks == {s \in SeqsUpTo(CallMainLineSet, MaxCall) : TimeSorted(s)}

CallSubLineSet ==
    {LrcLine(1, <<"b", " ">>, FALSE), LrcLine(2, <<>>, FALSE), LrcLine(3, <<"d">>, FALSE)}

CallSubTracks == {s \in SeqsUpTo(CallSubLineSet, MaxCall) : TimeSorted(s)}

\* the mappings given: none, one track, or two in either order of insertion
CallGroups ==
    {<<>>} \cup {<<<<"main", m>>>> : m \in CallMainTracks}
           \cup {<<<<"main", m>>, <<"trans", t>>>> : m \in CallMainTracks, t \in CallSubTracks}
           \cup {<<<<"trans", t>>, <<"main", m>>>> : m \in CallMainTracks, t \in CallSubTracks}

\* the most lines of a text given to process_lyrics
MaxTrackLines == 2

\* the texts of the original lyric: None, or some lines
OriginalTexts ==
    {NoText} \cup {Str(Join(ls)) :
                      ls \in SeqsUpTo({LinePlain, LinePause, LineCredit, LineNoTag}, MaxTrackLines)}

\* the texts of the translation: None, or some lines
TranslationTexts ==
    {NoText} \cup {Str(Join(ls)) :
                      ls \in SeqsUpTo({LinePlain, LineLater, LinePause, LineNoTag}, MaxTrackLines)}

\* the texts of the romanization: None, "", or one line
RomaTexts == {NoText, Str(<<>>), Str(LinePlain), Str(LineLater), Str(LineNoTag)}

-----------------------------------------------------------------------------
(* The calls *)

ParseIdle == lrc = <<>> /\ ignore_empty = FALSE /\ merge_empty = TRUE /\ parsed = <<>>

ProcessIdle ==
    /\ original_lyrics = NoText /\ translation_lyrics = NoText /\ roma_lyrics = NoText
    /\ track = "none"

MergeIdle ==
    /\ lyric_groups = <<>> /\ main_group = "None" /\ threshold = 0
    /\ replace_empty_line = <<>> /\ skip_merge_group_name = "None"
    /\ main_lyric = <<>> /\ sub_lines = <<>> /\ k = 0 /\ merged = <<>>

NoResult == result = <<>> /\ error = "none"

\* no event handled yet
NoEvent == [handler |-> "none", n |-> 0]

BotIdle ==
    /\ setting = <<>> /\ cache = {} /\ shared = {}
    /\ music_check_calls = <<>> /\ last = NoEvent

PluginIdle == render_groups = <<>> /\ BotIdle

\* a call parse_lrc(lrc, ignore_empty, merge_empty)
InitParse ==
    /\ pc = "parse_lrc"
    /\ lrc \in ParseTexts
    /\ ignore_empty \in BOOLEAN
    /\ merge_empty \in BOOLEAN
    /\ parsed = <<>>
    /\ ProcessIdle /\ MergeIdle /\ NoResult
    /\ PluginIdle

\* parse_lrc, the loop over the matched lines
ParseScan ==
    /\ pc = "parse_lrc"
    /\ parsed' = parse_scan(lrc)
    /\ pc' = "parse_policy"
    /\ UNCHANGED <<lrc, ignore_empty, merge_empty, processVars, lyric_groups,
                   mergeArgs, mergeLocals, result, error>>
    /\ UNCHANGED pluginVars

\* parse_lrc, the empty-line policy, the sort and the return
ParseFinish ==
    /\ pc = "parse_policy"
    /\ parsed' = parse_finish(parsed, ignore_empty, merge_empty)
    /\ pc' = "parse_done"
    /\ UNCHANGED <<lrc, ignore_empty, merge_empty, processVars, lyric_groups,
                   mergeArgs, mergeLocals, result, error>>
    /\ UNCHANGED pluginVars

NextParse == ParseScan \/ ParseFinish

SpecParse == InitParse /\ [][NextParse]_vars

\* a call merge_lrc(lyric_groups, main_group, threshold, replace_empty_line,
\* skip_merge_group_name) on two tracks, or on three
InitMerge ==
    /\ pc = "merge_lrc"
    /\ \/ /\ \E m \in MainTracks, t \in SubTracks :
                lyric_groups = <<<<"main", m>>, <<"trans", t>>>>
          /\ threshold \in {1, 2}
          /\ skip_merge_group_name \in {"None", "meta"}
       \/ /\ \E m \in MainTracks, t \in SubTracks, r \in RomaTracks :
                lyric_groups = <<<<"main", m>>, <<"trans", t>>, <<"roma", r>>>>
          /\ threshold = 1
          /\ skip_merge_group_name = "meta"
    /\ main_group = "main"
    /\ replace_empty_line = <<>>
    /\ main_lyric = <<>> /\ sub_lines = <<>> /\ k = 0 /\ merged = <<>>
    /\ ParseIdle /\ ProcessIdle /\ NoResult
    /\ PluginIdle

\* merge_lrc, lines 91-115: the working copies, the choice of the main track, the
\* stripping and the replacement of empty main lines
MergeStart ==
    /\ pc = "merge_lrc"
    /\ LET err == MainError(lyric_groups, main_group) IN
       IF err # "none"
       THEN /\ pc' = "raised"
            /\ error' = err
            /\ lyric_groups' = CallerLists(lyric_groups)
            /\ UNCHANGED <<main_group, mergeLocals>>
       ELSE LET main == MainId(lyric_groups, main_group)
                work == [n \in 1..Len(lyric_groups) |->
                            <<lyric_groups[n][1], TrimTrailing(lyric_groups[n][2])>>]
            IN /\ main_group' = main
               /\ main_lyric' = ReplaceEmpty(strip_lrc_lines(Get(work, main)),
                                             replace_empty_line)
               /\ sub_lines' = [n \in 1..(Len(work) - 1) |->
                                   <<Remove(work, main)[n][1],
                                     strip_lrc_lines(Remove(work, main)[n][2])>>]
               /\ lyric_groups' = [n \in 1..Len(lyric_groups) |->
                                      <<lyric_groups[n][1],
                                        CallerTrack(CallerLists(lyric_groups)[n][2],
                                                    lyric_groups[n][1] = main,
                                                    replace_empty_line)>>]
               /\ k' = 0
               /\ merged' = <<>>
               /\ pc' = "merge_loop"
               /\ error' = error
    /\ UNCHANGED <<parseVars, processVars, threshold, replace_empty_line,
                   skip_merge_group_name, result>>
    /\ UNCHANGED pluginVars

\* merge_lrc, lines 118-145: one pass of the loop over main_lyric
MergeMainLine ==
    /\ pc = "merge_loop"
    /\ k < Len(main_lyric)
    /\ LET main_line == main_lyric[k + 1] IN
       IF main_line.lrc = <<>>
       THEN UNCHANGED <<sub_lines, merged>>
       ELSE LET key == LineMainGroup(main_line, main_group, skip_merge_group_name)
                m == MatchSubs(<<<<key, main_line.lrc>>>>, sub_lines, 1, main_line, threshold)
            IN /\ sub_lines' = m.subs
               /\ merged' = Append(merged, LrcGroupLine(main_line.time, m.lrc))
    /\ k' = k + 1
    /\ UNCHANGED <<pc, parseVars, processVars, lyric_groups, mergeArgs, main_lyric,
                   result, error>>
    /\ UNCHANGED pluginVars

\* merge_lrc, lines 147-160: what the other tracks have left, and the return
MergeRest ==
    /\ pc = "merge_loop"
    /\ k = Len(main_lyric)
    /\ IF RestLrcLen(sub_lines) > 0 /\ merged = <<>>
       THEN /\ pc' = "raised"
            /\ error' = "IndexError"
            /\ UNCHANGED <<merged, result>>
       ELSE /\ merged' = IF RestLrcLen(sub_lines) > 0
                         THEN merged \o ExtraLines(sub_lines, Last(merged).time)
                         ELSE merged
            /\ result' = merged'
            /\ pc' = "done"
            /\ error' = error
    /\ UNCHANGED <<parseVars, processVars, lyric_groups, mergeArgs, main_lyric,
                   sub_lines, k>>
    /\ UNCHANGED pluginVars

NextMerge == MergeStart \/ MergeMainLine \/ MergeRest

SpecMerge == InitMerge /\ [][NextMerge]_vars

\* a call of merge_lrc with any arguments: main_group None, a key, or no key ("lead");
\* replace_empty_line None or a text
InitMergeCall ==
    /\ pc = "merge_lrc"
    /\ lyric_groups \in CallGroups
    /\ main_group \in {"None", "main", "lead"}
    /\ threshold = 1
    /\ replace_empty_line \in {<<>>, <<"~">>}
    /\ skip_merge_group_name \in {"None", "meta"}
    /\ main_lyric = <<>> /\ sub_lines = <<>> /\ k = 0 /\ merged = <<>>
    /\ ParseIdle /\ ProcessIdle /\ NoResult
    /\ PluginIdle

SpecMergeCall == InitMergeCall /\ [][NextMerge]_vars

\* a call process_lyrics(original_lyrics, translation_lyrics, roma_lyrics)
InitProcess ==
    /\ pc = "process_lyrics"
    /\ original_lyrics \in OriginalTexts
    /\ translation_lyrics \in TranslationTexts
    /\ roma_lyrics \in RomaTexts
    /\ track = "main"
    /\ ParseIdle /\ MergeIdle /\ NoResult
    /\ PluginIdle

\* the argument of process_lyrics that holds the text of a track
TrackText(t) ==
    IF t = "main" THEN original_lyrics
    ELSE IF t = "trans" THEN translation_lyrics
    ELSE roma_lyrics

\* process_lyrics, lines 172, 176, 180: a text that is None or "" is passed over,
\* any other is given to parse_lrc (with the default flags)
ProcessTrack ==
    /\ pc = "process_lyrics"
    /\ track \in {"main", "trans", "roma"}
    /\ IF Truthy(TrackText(track))
       THEN /\ lrc' = TrackText(track).text
            /\ ignore_empty' = FALSE
            /\ merge_empty' = TRUE
            /\ parsed' = <<>>
            /\ pc' = "parse_lrc"
            /\ track' = track
       ELSE /\ track' = NextTrack(track)
            /\ UNCHANGED <<pc, parseVars>>
    /\ UNCHANGED <<original_lyrics, translation_lyrics, roma_lyrics, lyric_groups,
                   mergeArgs, mergeLocals, result, error>>
    /\ UNCHANGED pluginVars

\* process_lyrics, lines 172-173, 176-177, 180-181: the list parse_lrc returned is
\* stored under the track's id unless it is empty
ProcessStore ==
    /\ pc = "parse_done"
    /\ track \in {"main", "trans", "roma"}
    /\ lyric_groups' = StoreGroup(lyric_groups, track, parsed)
    /\ track' = NextTrack(track)
    /\ pc' = "process_lyrics"
    /\ UNCHANGED <<parseVars, original_lyrics, translation_lyrics, roma_lyrics,
                   mergeArgs, mergeLocals, result, error>>
    /\ UNCHANGED pluginVars

\* process_lyrics, lines 184-193: the empty result, or the call of merge_lrc, whose
\* result (or exception) is that of process_lyrics
ProcessMerge ==
    /\ pc = "process_lyrics"
    /\ track = "end"
    /\ IF lyric_groups = <<>>
       THEN /\ result' = <<>>
            /\ pc' = "done"
            /\ UNCHANGED mergeArgs
       ELSE /\ main_group' = "main"
            /\ threshold' = ProcessThreshold
            /\ skip_merge_group_name' = "meta"
            /\ replace_empty_line' = <<>>
            /\ pc' = "merge_lrc"
            /\ result' = result
    /\ UNCHANGED <<parseVars, processVars, lyric_groups, mergeLocals, error>>
    /\ UNCHANGED pluginVars

NextProcess ==
    \/ ProcessTrack \/ ParseScan \/ ParseFinish \/ ProcessStore \/ ProcessMerge
    \/ MergeStart \/ MergeMainLine \/ MergeRest

SpecProcess == InitProcess /\ [][NextProcess]_vars

-----------------------------------------------------------------------------
(* render_lyrics_to_pic: the pairs handed to the template *)

\* sort_order = ("main", "roma", "trans", "meta")
sort_order == <<"main", "roma", "trans", "meta">>

\* sort_order.index(n): the first place of n, counted from 0
IndexIn(order, n) == (CHOOSE i \in 1..Len(order) :
                        order[i] = n /\ \A h \in 1..(i - 1) : order[h] # n) - 1

\* a key that follows the comment of line 86 only: main first, then translation
SortKeyFirstTwo(x) ==
    IF x[1] = "main" THEN 0 ELSE IF x[1] = "trans" THEN 1 ELSE 999

\* key=lambda x: sort_order.index(x[0]) if x[0] in sort_order else 999
SortKey(x) ==
    IF \E i \in 1..Len(sort_order) : sort_order[i] = x[1]
    THEN IndexIn(sort_order, x[1])
    ELSE 999

\* list.sort is stable: x goes after every pair whose key is not greater
RECURSIVE InsertByKey(_, _)
InsertByKey(sorted, x) ==
    IF sorted = <<>> THEN <<x>>
    ELSE IF SortKey(Head(sorted)) <= SortKey(x)
         THEN <<Head(sorted)>> \o InsertByKey(Tail(sorted), x)
         ELSE <<x>> \o sorted

\* group_tuples.sort(key=...)
RECURSIVE SortTuples(_, _)
SortTuples(sorted, rest) ==
    IF rest = <<>> THEN sorted
    ELSE SortTuples(InsertByKey(sorted, Head(rest)), Tail(rest))

\* group_tuples = [(n, r) for n, r in group.lrc.items()], then sorted
GroupTuples(group) == SortTuples(<<>>, group.lrc)

\* render_lyrics_to_pic, lines 82-90: the loop over the lines process_lyrics returned
\* (an exception of process_lyrics leaves the function before the loop)
RenderGroups ==
    /\ pc = "done"
    /\ render_groups' = [i \in 1..Len(result) |-> GroupTuples(result[i])]
    /\ pc' = "rendered"
    /\ UNCHANGED <<parseVars, processVars, lyric_groups, mergeArgs, mergeLocals,
                   result, error, botVars>>

\* render_lyrics_to_pic(title, artist, lyrics, translation, romaji) up to the call of
\* the template
NextRender ==
    \/ ProcessTrack \/ ParseScan \/ ParseFinish \/ ProcessStore \/ ProcessMerge
    \/ MergeStart \/ MergeMainLine \/ MergeRest \/ RenderGroups

SpecRender == InitProcess /\ [][NextRender]_vars

-----------------------------------------------------------------------------
(* The plugin: the table of settings, the recorded messages, the handlers *)

\* TRUE = ["True", "T", "true", "t"]
TRUE_FLAGS == {"True", "T", "true", "t"}

\* FALSE = ["False", "F", "false", "f"]
FALSE_FLAGS == {"False", "F", "false", "f"}

\* ADMIN[:ncm_config.ncm_admin_level] of ADMIN = ["owner", "admin", "member"]
ADMIN == <<"owner", "admin", "member">>

\* ncm_admin_level: int = 1
ncm_admin_level == 1

\* the ids of the superusers of the configuration: here user 1
superusers == {1}

\* a user id as the int of event.user_id, and as the str of a command argument:
\* in Python 5 == "5" is False
IntId(n) == [int |-> n]

StrId(n) == [str |-> n]

\* the documents the handlers insert
GroupDoc(g, song, list) == [group_id |-> g, song |-> song, list |-> list]

UserDoc(u, song, list) == [user_id |-> u, song |-> song, list |-> list]

GlobalDoc(v) == [global |-> "search", value |-> v]

\* Q[field] == value, tested on one document
Matches(doc, field, value) == field \in DOMAIN doc /\ doc[field] = value

\* setting.search(Q[field] == value): the documents that match, in table order
RECURSIVE Search(_, _, _)
Search(tbl, field, value) ==
    IF tbl = <<>> THEN <<>>
    ELSE (IF Matches(Head(tbl), field, value) THEN <<Head(tbl)>> ELSE <<>>)
             \o Search(Tail(tbl), field, value)

\* an update of the flags of every document that has the field, whatever its value
UpdateEvery(tbl, fields, field, value) ==
    [i \in 1..Len(tbl) |->
        IF field \in DOMAIN tbl[i]
        THEN [f \in DOMAIN tbl[i] |->
                 IF f \in {"song", "list"} /\ f \in DOMAIN fields THEN fields[f] ELSE tbl[i][f]]
        ELSE tbl[i]]

\* setting.update(fields, Q[field] == value): every document that matches takes the
\* fields given
Update(tbl, fields, field, value) ==
    [i \in 1..Len(tbl) |->
        IF Matches(tbl[i], field, value)
        THEN [f \in DOMAIN tbl[i] \cup DOMAIN fields |->
                 IF f \in DOMAIN fields THEN fields[f] ELSE tbl[i][f]]
        ELSE tbl[i]]

\* setting.insert(doc)
Insert(tbl, doc) == Append(tbl, doc)

\* the events: a message in a group, or a private message
GroupMessageEvent(g, u, role) == [kind |-> "group", group_id |-> g, user_id |-> IntId(u), role |-> role]

PrivateMessageEvent(u) == [kind |-> "private", user_id |-> IntId(u), role |-> "None"]

\* the field and the value of the query of an event's own document, and the flag a
\* document made for it starts with: False in a group, True in private
OwnField(event) == IF event.kind = "group" THEN "group_id" ELSE "user_id"

OwnValue(event) == IF event.kind = "group" THEN event.group_id ELSE event.user_id

OwnDoc(event, flag) ==
    IF event.kind = "group" THEN GroupDoc(event.group_id, flag, flag)
    ELSE UserDoc(event.user_id, flag, flag)

\* song_is_open and playlist_is_open: the flag `field` of the event's document; when
\* there is none, one is inserted and its flag returned
is_open(tbl, event, field) ==
    LET info == Search(tbl, OwnField(event), OwnValue(event))
        fresh == event.kind = "private"
    IN IF info # <<>> THEN [value |-> info[1][field], setting |-> tbl]
       ELSE [value |-> fresh, setting |-> Insert(tbl, OwnDoc(event, fresh))]

song_is_open(tbl, event) == is_open(tbl, event, "song")

playlist_is_open(tbl, event) == is_open(tbl, event, "list")

\* check_search: the value of the document of the search switch; when there is
\* none, one is inserted with True
check_search(tbl) ==
    LET info == Search(tbl, "global", "search")
    IN IF info # <<>> THEN [value |-> info[1].value, setting |-> tbl]
       ELSE [value |-> TRUE, setting |-> Insert(tbl, GlobalDoc(TRUE))]

\* music_set_rule
music_set_rule(event) ==
    \/ event.role \in {ADMIN[i] : i \in 1..ncm_admin_level}
    \/ event.user_id \in {IntId(u) : u \in superusers}

\* nncm.get_song(nid, message_id) and nncm.get_playlist(lid, message_id): the message
\* is recorded with what it shares
get_song(c, nid, message_id) == c \cup {[message_id |-> message_id, type |-> "song", nid |-> nid]}

get_playlist(c, lid, message_id) ==
    c \cup {[message_id |-> message_id, type |-> "playlist", nid |-> lid]}

\* nncm.check_message(message_id): what was recorded for the message, or None
check_message(c, message_id) ==
    IF \E x \in c : x.message_id = message_id
    THEN CHOOSE x \in c : x.message_id = message_id
    ELSE [message_id |-> message_id, type |-> "None", nid |-> 0]

\* the table after `ncm <mold>` for the field and value of a query; when nothing
\* matches, the document `own` is inserted with the flag
SetFlag(tbl, field, value, mold, own) ==
    LET info == Search(tbl, field, value)
        flag == mold \in TRUE_FLAGS
    IN IF mold \notin TRUE_FLAGS \cup FALSE_FLAGS THEN tbl
       ELSE IF info # <<>>
            THEN Update(tbl, [info[1] EXCEPT !.song = flag, !.list = flag], field, value)
            ELSE Insert(tbl, [own EXCEPT !.song = flag, !.list = flag])

\* the same for `ncm search <mold>`
SetSearch(tbl, mold) ==
    LET info == Search(tbl, "global", "search")
        flag == mold \in TRUE_FLAGS
    IN IF mold \notin TRUE_FLAGS \cup FALSE_FLAGS THEN tbl
       ELSE IF info # <<>>
            THEN Update(tbl, [info[1] EXCEPT !.value = flag], "global", "search")
            ELSE Insert(tbl, GlobalDoc(flag))

\* the record of history for a message a handler has recorded
Shared(name, event, message_id) == [handler |-> name, event |-> event, message_id |-> message_id]

\* the most events handled, the groups, the users, the messages and the songs
MaxEvents == 3

Groups == {1, 2}

Users == {1, 2}

MessageIds == {1, 2}

SongIds == {7}

\* user 1 owns the groups, user 2 is a member of them
RoleOf(u) == IF u = 1 THEN "owner" ELSE "member"

Events ==
    {GroupMessageEvent(g, u, RoleOf(u)) : g \in Groups, u \in Users}
        \cup {PrivateMessageEvent(u) : u \in Users}

\* what follows `ncm`: every spelling of the flags and a word that is none; after
\* `search` and `private`, one spelling of each
Molds == TRUE_FLAGS \cup FALSE_FLAGS \cup {"on"}

ShortMolds == {"T", "f", "on"}

Handled(name, event) == last' = [handler |-> name, event |-> event, n |-> last.n + 1]

\* the command 点歌, its rule check_search and receive_song: when the rule lets it
\* through and nncm.search_song finds a song (`found`), the card is sent and the
\* message that carries it is recorded
ReceiveSong(event, found, message_id, nid) ==
    /\ pc = "bot"
    /\ last.n < MaxEvents
    /\ \A x \in cache : x.message_id # message_id
    /\ setting' = check_search(setting).setting
    /\ cache' = IF check_search(setting).value /\ found
                THEN get_song(cache, nid, message_id)
                ELSE cache
    /\ shared' = IF check_search(setting).value /\ found
                 THEN shared \cup {Shared("receive_song", event, message_id)}
                 ELSE shared
    /\ Handled("receive_song", event)
    /\ UNCHANGED <<lyricVars, render_groups, music_check_calls>>

\* music_receive: a message that shares a song is recorded
MusicReceive(event, message_id, nid) ==
    /\ pc = "bot"
    /\ last.n < MaxEvents
    /\ \A x \in cache : x.message_id # message_id
    /\ cache' = get_song(cache, nid, message_id)
    /\ shared' = shared \cup {Shared("music_receive", event, message_id)}
    /\ Handled("music_receive", event)
    /\ UNCHANGED <<lyricVars, render_groups, setting, music_check_calls>>

\* music_list_receive: a message that shares a playlist is recorded
MusicListReceive(event, message_id, lid) ==
    /\ pc = "bot"
    /\ last.n < MaxEvents
    /\ \A x \in cache : x.message_id # message_id
    /\ cache' = get_playlist(cache, lid, message_id)
    /\ shared' = shared \cup {Shared("music_list_receive", event, message_id)}
    /\ Handled("music_list_receive", event)
    /\ UNCHANGED <<lyricVars, render_groups, setting, music_check_calls>>

\* music_reply_receive: a reply with the text "下载" to the message `reply`
MusicReplyReceive(event, reply) ==
    /\ pc = "bot"
    /\ last.n < MaxEvents
    /\ LET info == check_message(cache, reply) IN
       IF info.type = "None"
       THEN UNCHANGED <<setting, music_check_calls>>
       ELSE LET rule == IF info.type = "song" THEN song_is_open(setting, event)
                        ELSE playlist_is_open(setting, event)
            IN /\ setting' = rule.setting
               /\ music_check_calls' =
                      IF rule.value
                      THEN Append(music_check_calls, [ids |-> info.nid, event |-> event])
                      ELSE music_check_calls
    /\ last' = [handler |-> "music_reply_receive", event |-> event, reply |-> reply,
                n |-> last.n + 1]
    /\ UNCHANGED <<lyricVars, render_groups, cache, shared>>

\* set_receive: `ncm` with its arguments, from a sender music_set_rule lets through
SetReceive(event, args) ==
    /\ pc = "bot"
    /\ last.n < MaxEvents
    /\ music_set_rule(event)
    /\ setting' =
           IF Len(args) = 1
           THEN SetFlag(setting, OwnField(event), OwnValue(event), args[1],
                        OwnDoc(event, TRUE))
           ELSE IF Len(args) = 2 /\ args[1] = "search"
           THEN SetSearch(setting, args[2])
           ELSE IF Len(args) = 3 /\ args[1] = "private"
           THEN SetFlag(setting, "user_id", args[2], args[3],
                        UserDoc(event.user_id, TRUE, TRUE))
           ELSE setting
    /\ last' = [handler |-> "set_receive", event |-> event, args |-> args, n |-> last.n + 1]
    /\ UNCHANGED <<lyricVars, render_groups, cache, shared, music_check_calls>>

\* the arguments of `ncm`: none, a flag, `search` and a flag, `private`, a user and a flag
SetArgs ==
    {<<>>} \cup {<<m>> : m \in Molds} \cup {<<"search", m>> : m \in ShortMolds}
           \cup {<<"private", StrId(u), m>> : u \in Users, m \in ShortMolds}

InitBot ==
    /\ pc = "bot"
    /\ ParseIdle /\ ProcessIdle /\ MergeIdle /\ NoResult
    /\ PluginIdle

NextBot ==
    \/ \E event \in Events, found \in BOOLEAN, m \in MessageIds, nid \in SongIds :
           ReceiveSong(event, found, m, nid)
    \/ \E event \in Events, m \in MessageIds, nid \in SongIds : MusicReceive(event, m, nid)
    \/ \E event \in Events, m \in MessageIds, lid \in SongIds : MusicListReceive(event, m, lid)
    \/ \E event \in Events, m \in MessageIds : MusicReplyReceive(event, m)
    \/ \E event \in Events, args \in SetArgs : SetReceive(event, args)

SpecBot == InitBot /\ [][NextBot]_vars

-----------------------------------------------------------------------------
(* Properties of parse_lrc *)

\* the bracketed tags at the start of the lines of a text, counted
RECURSIVE TagTotal(_)
TagTotal(lines) ==
    IF lines = <<>> THEN 0 ELSE TagCount(Head(lines), 1) + TagTotal(Tail(lines))

\* the text after the tags of the line that holds the i-th bracketed tag
RECURSIVE OwnerText(_, _)
OwnerText(lines, i) ==
    IF i <= TagCount(Head(lines), 1) THEN LineText(Head(lines))
    ELSE OwnerText(Tail(lines), i - TagCount(Head(lines), 1))

\* the matches of LRC_TIME_REGEX that the scan of the matched lines goes through
RECURSIVE ScanMatches(_)
ScanMatches(lines) ==
    IF lines = <<>> THEN <<>>
    ELSE (IF LRC_LINE_REGEX(Head(lines)).ok THEN FindTimes(Head(lines), 1) ELSE <<>>)
             \o ScanMatches(Tail(lines))

\* n / d rounded to the nearest whole number, halves to the even one
RoundDiv(n, d) ==
    LET q == n \div d
        r == n % d
    IN IF 2 * r < d THEN q
       ELSE IF 2 * r > d THEN q + 1
       ELSE IF q % 2 = 0 THEN q ELSE q + 1

\* minutes * 60000 + round(seconds_with_fraction * 1000), the fraction read as 0.F
RoundedTime(m) ==
    LET frac == IF m.mili = <<>> THEN <<"0">> ELSE m.mili
        den == Pow(10, Len(frac))
    IN IntOf(m.min) * 60000 + RoundDiv(1000 * (IntOf(m.sec) * den + IntOf(frac)), den)

\* C1: the list parse_lrc returns is in non-decreasing time order, for every text and
\* every combination of ignore_empty and merge_empty.
C1_SortedByTime ==
    pc = "parse_done" =>
        \A i \in 1..(Len(parsed) - 1) : parsed[i].time <= parsed[i + 1].time

\* C1, its case: a returned list of three entries or more, from a text with a line of
\* several tags, whose entries were out of time order before the sort.
C1_Witness ==
    /\ pc = "parse_done"
    /\ Len(parsed) >= 3
    /\ ~TimeSorted(EmptyPolicy(parse_scan(lrc), ignore_empty, merge_empty))
    /\ \E l \in 1..Len(SplitLines(lrc)) : TagCount(SplitLines(lrc)[l], 1) >= 2

\* C2: after the scan, the list holds one entry per bracketed tag of the matched lines,
\* each with the text that follows the tags of its line, whatever that text is.
C2_EntryPerTag ==
    pc = "parse_policy" =>
        /\ Len(parsed) = TagTotal(SplitLines(lrc))
        /\ \A i \in 1..Len(parsed) : parsed[i].lrc = OwnerText(SplitLines(lrc), i)

\* C3: with ignore_empty off and merge_empty on, the returned list has no two adjacent
\* entries without text, and neither begins nor ends with an entry without text.
C3_NoDanglingEmpty ==
    (pc = "parse_done" /\ ~ignore_empty /\ merge_empty) =>
        /\ \A i \in 1..(Len(parsed) - 1) : ~(parsed[i].lrc = <<>> /\ parsed[i + 1].lrc = <<>>)
        /\ parsed # <<>> => (parsed[1].lrc # <<>> /\ Last(parsed).lrc # <<>>)

\* C4: the time of every entry is minutes * 60000 + round(seconds.fraction * 1000) of
\* the tag it was made from: the rounded, not the truncated, number of milliseconds.
C4_RoundedTime ==
    pc = "parse_policy" =>
        \A i \in 1..Len(parsed) :
            parsed[i].time = RoundedTime(ScanMatches(SplitLines(lrc))[i])

\* the index at which the j-th bracketed tag of the run that starts at i begins
RECURSIVE TagStart(_, _, _)
TagStart(s, i, j) == IF j = 1 THEN i ELSE TagStart(s, TagEnd(s, i), j - 1)

\* the j-th bracketed tag of a line has a "-" between its brackets
TagHasSuffix(line, j) ==
    \E p \in TagStart(line, 1, j)..(TagEnd(line, TagStart(line, 1, j)) - 1) : line[p] = "-"

\* the number of entries the scan has made before it comes to the l-th line
RECURSIVE EntriesBefore(_, _)
EntriesBefore(lines, l) ==
    IF l = 1 THEN 0
    ELSE EntriesBefore(lines, l - 1) + Len(LineEntries(lines[l - 1]))

\* the text after the tags of a line, trimmed, starts with a credit label
IsCreditLine(line) ==
    \E p \in CreditLabels : StartsWith(Strip(SubSeq(line, TagsEnd(line, 1), Len(line))), p)

\* C16: after the scan, the entry made from the j-th bracketed tag of a line has
\* skip_merge true exactly when that tag has the meta suffix, if the line's text does
\* not start with a credit label; if it does, every entry of the line has skip_merge
\* true.
C16_SkipMergePerTag ==
    pc = "parse_policy" =>
        LET lines == SplitLines(lrc) IN
        \A l \in 1..Len(lines) :
            LET at == EntriesBefore(lines, l) IN
            IF IsCreditLine(lines[l])
            THEN \A i \in (at + 1)..(at + Len(LineEntries(lines[l]))) : parsed[i].skip_merge
            ELSE \A j \in 1..TagCount(lines[l], 1) :
                     parsed[at + j].skip_merge = TagHasSuffix(lines[l], j)

\* C16, its case: a line of two tags with the suffix on the first only, then a credit
\* line of two tags with the suffix on the second only.
C16_Witness ==
    /\ pc = "parse_policy"
    /\ lrc = Join(<<LineTwoTags, LineCreditTags>>)
    /\ Len(parsed) = 4
    /\ parsed[1].skip_merge /\ ~parsed[2].skip_merge
    /\ parsed[3].skip_merge /\ parsed[4].skip_merge

-----------------------------------------------------------------------------
(* Properties of merge_lrc *)

\* the main line the next pass of the loop takes, when there is one
MainLine == main_lyric[k + 1]

\* the next pass of the loop makes an output line
Emitting == pc = "merge_loop" /\ k < Len(main_lyric) /\ MainLine.lrc # <<>>

\* the lines of a track, by index, that have a text and a time in [t - th, t + th)
Candidates(sub_lrc, t, th) ==
    {i \in 1..Len(sub_lrc) :
        sub_lrc[i].lrc # <<>> /\ t - th <= sub_lrc[i].time /\ sub_lrc[i].time < t + th}

Min(S) == CHOOSE x \in S : \A y \in S : x <= y

\* C5: for a main line at time t that is not held back from matching, what is recorded
\* under the id of another track is the text of the first line of that track, from its
\* cursor on, that has a text and a time in [t - threshold, t + threshold); the track
\* then goes on after that line, so no later main line can be given it.  Without such
\* a line nothing is recorded under the id.
C5_FirstInWindow ==
    [][(Emitting /\ ~MainLine.skip_merge) =>
          \A n \in 1..Len(sub_lines) :
              LET group == sub_lines[n][1]
                  sub_lrc == sub_lines[n][2]
                  C == Candidates(sub_lrc, MainLine.time, threshold)
              IN IF C = {}
                 THEN group \notin Keys(Last(merged').lrc)
                 ELSE /\ group \in Keys(Last(merged').lrc)
                      /\ Get(Last(merged').lrc, group) = sub_lrc[Min(C)].lrc
                      /\ sub_lines'[n] = <<group, SubSeq(sub_lrc, Min(C) + 1, Len(sub_lrc))>>
      ]_vars

\* C5, its case: with threshold 1, the main line at time 1 was given the translation
\* line at time 0 = t - threshold, and the translation line at time 2 = t + threshold
\* was not matched: it is what the track had left.
C5_Witness ==
    /\ pc = "done"
    /\ threshold = 1
    /\ Len(result) = 2
    /\ result[1].time = 1
    /\ result[1].lrc = <<<<"main", <<"A">>>>, <<"trans", SubText(0)>>>>
    /\ result[2].lrc = <<<<"trans", SubText(2)>>>>

\* C6: when the loop over the main lines is over and another track has lines left, R
\* lines are appended, R the largest number of lines a track has left; each has the
\* time of the last line made from a main line plus 1000 and, under the id of every
\* track that has a j-th line left, that line's text, and no other key.
C6_LeftoverLines ==
    (pc \in {"done", "raised"} /\ RestLrcLen(sub_lines) > 0) =>
        /\ pc = "done"
        /\ LET M == Len(NonEmptyOnly(main_lyric))
               R == RestLrcLen(sub_lines)
           IN /\ Len(result) = M + R
              /\ \A j \in 1..R :
                    /\ result[M + j].time = result[M].time + 1000
                    /\ Keys(result[M + j].lrc) =
                           {sub_lines[n][1] : n \in {h \in 1..Len(sub_lines) : j <= Len(sub_lines[h][2])}}
                    /\ \A n \in 1..Len(sub_lines) :
                           j <= Len(sub_lines[n][2]) =>
                               Get(result[M + j].lrc, sub_lines[n][1]) = sub_lines[n][2][j].lrc

\* C7: in every line of the returned list every id of the mapping has a non-empty text.
C7_NoEmptyText ==
    pc = "done" =>
        \A i \in 1..Len(result) :
            \A j \in 1..Len(result[i].lrc) : result[i].lrc[j][2] # <<>>

\* C8: for a main line held back from matching, when skip_merge_group_name is given,
\* the output line has one key, skip_merge_group_name, with the main line's text, and
\* no other track loses a line.
C8_SuppressedLine ==
    [][(Emitting /\ MainLine.skip_merge /\ skip_merge_group_name # "None") =>
          /\ merged' = Append(merged,
                              LrcGroupLine(MainLine.time,
                                           <<<<skip_merge_group_name, MainLine.lrc>>>>))
          /\ sub_lines' = sub_lines
      ]_vars

\* C8, its case: the main line at time 1 is held back and came out under "meta" alone;
\* the translation line at time 1, in its window, was given to the next main line.
C8_Witness ==
    /\ pc = "done"
    /\ Len(result) >= 2
    /\ result[1].time = 1
    /\ result[1].lrc = <<<<"meta", <<"A">>>>>>
    /\ result[2].lrc = <<<<"main", <<"A">>>>, <<"trans", SubText(1)>>>>

\* the lines without text, by index, that the scan of a track meets: those with no
\* line of Candidates before them
EmptyMet(sub_lrc, t, th) ==
    {i \in 1..Len(sub_lrc) :
        sub_lrc[i].lrc = <<>> /\ \A j \in 1..(i - 1) : j \notin Candidates(sub_lrc, t, th)}

\* C13 as it is stated: for a main line that is not held back, a track whose scan
\* meets a line without text gives nothing to the output line and keeps all its lines.
C13_EmptyStopsScan ==
    [][(Emitting /\ ~MainLine.skip_merge) =>
          \A n \in 1..Len(sub_lines) :
              EmptyMet(sub_lines[n][2], MainLine.time, threshold) # {} =>
                  /\ sub_lines[n][1] \notin Keys(Last(merged').lrc)
                  /\ sub_lines'[n] = sub_lines[n]
      ]_vars

\* C13, amended: a line without text met by the scan is passed over and the scan goes
\* on.  If a later line of the track has a text and a time in the window, the first
\* such line gives its text and the track loses every line up to it, the lines without
\* text included; only without such a line does the track give nothing and keep its
\* lines.
C13_EmptyPassedOver ==
    [][(Emitting /\ ~MainLine.skip_merge) =>
          \A n \in 1..Len(sub_lines) :
              LET group == sub_lines[n][1]
                  sub_lrc == sub_lines[n][2]
                  C == Candidates(sub_lrc, MainLine.time, threshold)
              IN EmptyMet(sub_lrc, MainLine.time, threshold) # {} =>
                     IF C = {}
                     THEN group \notin Keys(Last(merged').lrc) /\ sub_lines'[n] = sub_lines[n]
                     ELSE /\ group \in Keys(Last(merged').lrc)
                          /\ Get(Last(merged').lrc, group) = sub_lrc[Min(C)].lrc
                          /\ sub_lines'[n][2] = SubSeq(sub_lrc, Min(C) + 1, Len(sub_lrc))
      ]_vars

\* C13, its case: the translation began with a line without text, inside the window
\* of the main line at time 1; the line after it, also inside, gave its text.
C13_Witness ==
    /\ pc = "done"
    /\ threshold = 1
    /\ Get(lyric_groups, "main") = <<LrcLine(1, <<"A">>, FALSE)>>
    /\ Get(lyric_groups, "trans") = <<LrcLine(0, <<>>, FALSE), LrcLine(1, SubText(1), FALSE)>>
    /\ result = <<LrcGroupLine(1, <<<<"main", <<"A">>>>, <<"trans", SubText(1)>>>>)>>

\* the lines of a track, by index, with a time in [t - th, t + th), with or without text
InWindowLines(sub_lrc, t, th) ==
    {i \in 1..Len(sub_lrc) : t - th <= sub_lrc[i].time /\ sub_lrc[i].time < t + th}

\* C17: when the loop makes an output line and a track has, from its cursor to its
\* end, no line in the window of the main line, the track keeps every line it had and
\* the output line has no key of that track: the lines stay for the main lines that
\* follow and, when the loop is over, are what the track has left.
C17_NoMatchKeepsTrack ==
    [][Emitting =>
          \A n \in 1..Len(sub_lines) :
              InWindowLines(sub_lines[n][2], MainLine.time, threshold) = {} =>
                  /\ sub_lines'[n] = sub_lines[n]
                  /\ sub_lines[n][1] \notin Keys(Last(merged').lrc)
      ]_vars

\* C17, its case: with threshold 1 the translation line at time 2 was outside the
\* window of the main line at time 1 and was given to the main line at time 2; the
\* line at time 3, outside both windows, is what the track had left.
C17_Witness ==
    /\ pc = "done"
    /\ threshold = 1
    /\ Get(lyric_groups, "trans") = <<LrcLine(2, SubText(2), FALSE), LrcLine(3, SubText(3), FALSE)>>
    /\ Len(result) = 3
    /\ result[1] = LrcGroupLine(1, <<<<"main", <<"A">>>>>>)
    /\ result[2] = LrcGroupLine(2, <<<<"main", <<"A">>>>, <<"trans", SubText(2)>>>>)
    /\ result[3] = LrcGroupLine(1002, <<<<"trans", SubText(3)>>>>)

\* the lines of the track of an id, with the texts merge_lrc compares
WorkingTrack(group) == strip_lrc_lines(Get(lyric_groups, group))

\* C18: when the scan of a track finds its match at offset i, the track loses the
\* i + 1 lines up to the match and the output line has, under the track's id, the text
\* of the matched line, whatever texts the i lines before it have.  At every point of
\* the loop what a track has left is the end of the track it began with, and every
\* text recorded under its id is that of a line it has lost: no line that was
\* consumed is there for a later output line or for the lines left over.
C18_MatchConsumesSkipped ==
    /\ [][(Emitting /\ ~MainLine.skip_merge) =>
             \A n \in 1..Len(sub_lines) :
                 LET sub_lrc == sub_lines[n][2]
                     C == Candidates(sub_lrc, MainLine.time, threshold)
                 IN C # {} =>
                        /\ Len(sub_lines'[n][2]) = Len(sub_lrc) - Min(C)
                        /\ \A j \in 1..Len(sub_lines'[n][2]) :
                               sub_lines'[n][2][j] = sub_lrc[Min(C) + j]
                        /\ <<sub_lines[n][1], sub_lrc[Min(C)].lrc>> \in
                               {Last(merged').lrc[h] : h \in 1..Len(Last(merged').lrc)}
         ]_vars
    /\ [](pc = "merge_loop" =>
             \A n \in 1..Len(sub_lines) :
                 LET group == sub_lines[n][1]
                     began == WorkingTrack(group)
                     left == sub_lines[n][2]
                 IN \E lost \in 0..(Len(began) - Len(left)) :
                        /\ left = SubSeq(began, lost + 1, lost + Len(left))
                        /\ \A q \in (lost + Len(left) + 1)..Len(began) : began[q].lrc = <<>>
                        /\ \A r \in 1..Len(merged) :
                               group \in Keys(merged[r].lrc) =>
                                   \E p \in 1..lost : began[p].lrc = Get(merged[r].lrc, group))

\* C18, its case: with threshold 1 the scan for the main line at time 2 went over the
\* translation line at time 0, which has a text, and matched the line at time 2; the
\* text of the first is nowhere in the result.
C18_Witness ==
    /\ pc = "done"
    /\ threshold = 1
    /\ Get(lyric_groups, "trans") = <<LrcLine(0, SubText(0), FALSE), LrcLine(2, SubText(2), FALSE)>>
    /\ result = <<LrcGroupLine(2, <<<<"main", <<"A">>>>, <<"trans", SubText(2)>>>>)>>

\* what merge_lrc returns is as claim C19 has it: one line for each main line with a
\* text, then the lines left over
MainLinesThenRest ==
    LET made == NonEmptyOnly(main_lyric)
        R == RestLrcLen(sub_lines)
    IN /\ Len(result) = Len(made) + R
       /\ \A i \in 1..Len(made) :
              /\ result[i].time = made[i].time
              /\ result[i].lrc[1] =
                     <<LineMainGroup(made[i], main_group, skip_merge_group_name), made[i].lrc>>

\* C19: a call of merge_lrc that found its main track returns, in the order of the main
\* track, one line for each main line with a text, with that line's time and its text
\* under the main id (or under skip_merge_group_name), and after them the R lines left
\* over: as many lines as the main track has lines with a text, plus R.
C19_MainLinesThenRest ==
    (pc = "done" \/ (pc = "raised" /\ error = "IndexError")) =>
        (pc = "done" /\ MainLinesThenRest)

\* the same for the calls that return
C19_WhenReturned == pc = "done" => MainLinesThenRest

\* C21: when the main track of a call of merge_lrc is in non-decreasing order of time,
\* the list the call returns is in non-decreasing order of time, the lines appended
\* for what the other tracks have left included.
C21_ResultTimeSorted ==
    (pc = "done" /\ TimeSorted(main_lyric)) => TimeSorted(result)

\* C21, its case: a returned list of two lines made from main lines at different
\* times, then a line appended for a translation line left over.
C21_Witness ==
    /\ pc = "done"
    /\ TimeSorted(main_lyric)
    /\ Len(result) = 3
    /\ result[1].time < result[2].time
    /\ Keys(result[3].lrc) = {"trans"}
    /\ result[3].time = result[2].time + 1000

\* the texts a list of output lines has under an id, in the order of the lines
RECURSIVE TextsUnder(_, _)
TextsUnder(lines, group) ==
    IF lines = <<>> THEN <<>>
    ELSE (IF group \in Keys(Head(lines).lrc)
          THEN <<Get(Head(lines).lrc, group)>> ELSE <<>>) \o TextsUnder(Tail(lines), group)

\* a is what is left of b when some of its elements are taken out
RECURSIVE IsSubsequence(_, _)
IsSubsequence(a, b) ==
    IF a = <<>> THEN TRUE
    ELSE IF b = <<>> THEN FALSE
    ELSE IF Head(a) = Head(b) THEN IsSubsequence(Tail(a), Tail(b))
    ELSE IsSubsequence(a, Tail(b))

\* C22: in the list merge_lrc returns, the texts under the id of a track other than the
\* main one, read from the first line to the last (matched lines, then lines left
\* over), are texts of distinct lines of that track in the order of the track: no line
\* gives its text to two output lines and none comes before a line matched earlier.
C22_TrackOrderKept ==
    pc = "done" =>
        \A n \in 1..Len(sub_lines) :
            LET group == sub_lines[n][1]
                texts == [p \in 1..Len(WorkingTrack(group)) |-> WorkingTrack(group)[p].lrc]
            IN IsSubsequence(TextsUnder(result, group), texts)

\* C22, its case: of a translation of two lines the first was matched to the first
\* main line and the second, out of the window of the second main line, was left over.
C22_Witness ==
    /\ pc = "done"
    /\ threshold = 1
    /\ Len(result) = 3
    /\ Len(Get(lyric_groups, "trans")) = 2
    /\ "trans" \in Keys(result[1].lrc)
    /\ "trans" \notin Keys(result[2].lrc)
    /\ TextsUnder(result, "trans") = <<SubText(1), SubText(3)>>

\* one pass of the loop over the main lines in a call with the main track and the
\* track `sub` alone: the text recorded under the track's id, if any, and the track after
PassAlone(sub, main_line, th) ==
    IF main_line.lrc = <<>> THEN [lrc |-> <<>>, subs |-> <<sub>>]
    ELSE MatchSubs(<<>>, <<sub>>, 1, main_line, th)

-----------------------------------------------------------------------------
(* Properties of process_lyrics *)

\* a text that adds no track: None, "", or a text that parse_lrc turns into no entry
\* (no line with a recognized tag, or tagged lines without text only)
NoEntries(text) == ~Truthy(text) \/ parse_lrc(text.text, FALSE, TRUE) = <<>>

\* C9: process_lyrics raises no error, whatever its three arguments are.
C9_NeverRaises == pc # "raised" /\ error = "none"

\* C10: when none of the three arguments adds a track, process_lyrics raises no error
\* and returns the empty list.
C10_EmptyResult ==
    (/\ pc \in {"done", "raised"}
     /\ NoEntries(original_lyrics)
     /\ NoEntries(translation_lyrics)
     /\ NoEntries(roma_lyrics)) =>
        (pc = "done" /\ error = "none" /\ result = <<>>)

\* C10, its case: the call returned for an original lyric of tagged lines without
\* text, a translation without a tag and a romanization that is "".
C10_Witness ==
    /\ pc = "done"
    /\ original_lyrics = Str(LinePause)
    /\ translation_lyrics = Str(LineNoTag)
    /\ roma_lyrics = Str(<<>>)
    /\ result = <<>>

-----------------------------------------------------------------------------
(* Properties of merge_lrc called with any arguments *)

\* C11: a call of merge_lrc with a main id that is no key of the mapping ends in
\* KeyError: no output line is made, nothing is returned, no other track is taken as
\* the main one, and the caller's lists are what they were.
C11_MissingMainFails ==
    [][(pc = "merge_lrc" /\ main_group # "None" /\ main_group \notin Keys(lyric_groups)) =>
          /\ pc' = "raised"
          /\ error' = "KeyError"
          /\ lyric_groups' = lyric_groups
          /\ main_group' = main_group
          /\ merged' = <<>>
          /\ result' = <<>>
      ]_vars

\* C11, its case: the call failed for a mapping without the id "lead" whose main
\* track ends with a line without text, which the working copy lost before the lookup.
C11_Witness ==
    /\ pc = "raised"
    /\ error = "KeyError"
    /\ main_group = "lead"
    /\ "main" \in Keys(lyric_groups)
    /\ Len(Get(lyric_groups, "main")) = 2
    /\ Last(Get(lyric_groups, "main")).lrc = <<>>

\* C12: a call of merge_lrc on a mapping that holds the main id returns a list and
\* raises no error, whatever the tracks hold.
C12_ReturnsForAnyTracks ==
    (pc \in {"done", "raised"} /\ main_group \in Keys(lyric_groups)) =>
        (pc = "done" /\ error = "none")

\* C14: no step of a call of merge_lrc changes what the caller gave: every track keeps
\* its lines, and every line its time, its text and its skip_merge flag.
C14_CallerUnchanged == [][lyric_groups' = lyric_groups]_vars

-----------------------------------------------------------------------------
(* Properties of render_lyrics_to_pic *)

\* the display priority of a track id: main, romanization, translation, metadata,
\* then every other id
Priority(id) ==
    CASE id = "main" -> 1
      [] id = "roma" -> 2
      [] id = "trans" -> 3
      [] id = "meta" -> 4
      [] OTHER -> 5

-----------------------------------------------------------------------------
(* Properties of the plugin *)

\* C15: whenever music_reply_receive handles, in a group, a reply to a message that
\* music_receive recorded in that group as sharing a song, it calls nncm.music_check
\* with that song, whatever the table of settings holds.
C15_ReplyStartsDownload ==
    [][(/\ last'.n = last.n + 1
        /\ last'.handler = "music_reply_receive"
        /\ last'.event.kind = "group"
        /\ \E x \in shared :
               /\ x.handler = "music_receive"
               /\ x.message_id = last'.reply
               /\ x.event.kind = "group"
               /\ x.event.group_id = last'.event.group_id) =>
           music_check_calls' =
               Append(music_check_calls,
                      [ids |-> check_message(cache, last'.reply).nid, event |-> last'.event])
      ]_vars

\* what song_is_open and playlist_is_open return for a message in group g
GroupOpen(tbl, g) ==
    [song |-> song_is_open(tbl, GroupMessageEvent(g, 1, RoleOf(1))).value,
     list |-> playlist_is_open(tbl, GroupMessageEvent(g, 1, RoleOf(1))).value]

\* the step is set_receive handling `ncm <flag>` in group g, the flag one of TRUE or FALSE
FlagCommandIn(g) ==
    /\ last'.n = last.n + 1
    /\ last'.handler = "set_receive"
    /\ last'.event.kind = "group"
    /\ last'.event.group_id = g
    /\ Len(last'.args) = 1
    /\ last'.args[1] \in TRUE_FLAGS \cup FALSE_FLAGS

\* C24: for every group G, after set_receive has handled `ncm <flag>` in G from a
\* sender music_set_rule lets through, song_is_open and playlist_is_open return True
\* in G when the flag is one of TRUE and False when it is one of FALSE, whether G had a
\* document or not; and no other step (a command in another group or in private, a
\* command with other arguments, a check of the rules) changes what they return in G.
C24_GroupFlagHolds ==
    [][\A g \in Groups :
          IF FlagCommandIn(g)
          THEN GroupOpen(setting', g) =
                   [song |-> last'.args[1] \in TRUE_FLAGS, list |-> last'.args[1] \in TRUE_FLAGS]
          ELSE GroupOpen(setting', g) = GroupOpen(setting, g)
      ]_vars

\* C24, its case: `ncm t` was handled in group 1, whose document was there before that
\* of group 2 and is now open, while group 2 is as `ncm f` left it.
C24_Witness ==
    /\ last.handler = "set_receive"
    /\ last.event.kind = "group"
    /\ last.event.group_id = 1
    /\ last.args = <<"t">>
    /\ setting = <<GroupDoc(1, TRUE, TRUE), GroupDoc(2, FALSE, FALSE)>>
    /\ GroupOpen(setting, 1) = [song |-> TRUE, list |-> TRUE]
    /\ GroupOpen(setting, 2) = [song |-> FALSE, list |-> FALSE]

\* what song_is_open and playlist_is_open return for a private message of user u
UserOpen(tbl, u) ==
    [song |-> song_is_open(tbl, PrivateMessageEvent(u)).value,
     list |-> playlist_is_open(tbl, PrivateMessageEvent(u)).value]

\* the documents of user u in the table
UserDocs(tbl, u) == Search(tbl, "user_id", IntId(u))

\* the step is set_receive handling `ncm private <u> <flag>`, the flag one of TRUE or
\* FALSE
PrivateCommandFor(u) ==
    /\ last'.n = last.n + 1
    /\ last'.handler = "set_receive"
    /\ Len(last'.args) = 3
    /\ last'.args[1] = "private"
    /\ last'.args[2] = StrId(u)
    /\ last'.args[3] \in TRUE_FLAGS \cup FALSE_FLAGS

\* C25: after set_receive has handled `ncm private <qq> <flag>` from a sender
\* music_set_rule lets through, the download setting of user qq, song and list, is the
\* flag, and the documents of every other user, the sender among them, are the ones
\* there were before, whether qq had a document or not.
C25_PrivateSetsUser ==
    [][\A u \in Users :
          PrivateCommandFor(u) =>
              /\ UserDocs(setting', u) # <<>>
              /\ UserOpen(setting', u) =
                     [song |-> last'.args[3] \in TRUE_FLAGS, list |-> last'.args[3] \in TRUE_FLAGS]
              /\ \A v \in Users \ {u} : UserDocs(setting', v) = UserDocs(setting, v)
      ]_vars

====
